---- MODULE Spec2Model ----
(***************************************************************************)
(* A model of the clinicops_server account-security and identifier         *)
(* cluster: the sequential identifier generators (apps/core/               *)
(* id_generators.py), the lockout and reset-code methods of User           *)
(* (apps/accounts/models.py), CookieJWTAuthentication, LoginThrottle,      *)
(* custom_exception_handler, normalize_phone (apps/core/utils.py),         *)
(* ClinicScopedMixin (apps/core/mixins.py) and concurrent failed logins    *)
(* that each work on their own User instance.                              *)
(*                                                                         *)
(* Character strings are sequences of one-character strings, so that       *)
(* formatting, splitting, parsing and ordering are computed as the code    *)
(* computes them.                                                          *)
(***************************************************************************)
EXTENDS Integers, Sequences, FiniteSets, TLC

VARIABLES
    today,      \* timezone.localdate(): index of the current calendar day
    tables,     \* the Patient / Visit / Invoice / Payment rows, per entity kind
    req,        \* per request: where it stands between generate and persist
    now,        \* timezone.now() for the account methods, in minutes
    user,       \* the security fields of one User row
    streak,     \* increments since the account was last unlocked with counter 0
    fifthAt,    \* the time of the 5th increment of the current streak
    issuedAt,   \* the time of the latest set_reset_code, or NoTime
    issuedCode, \* the code of the latest set_reset_code, or ""
    uses,       \* successful verifications of the latest issued code
    verdict,    \* the result of the latest verify_reset_code call
    tokenIat,   \* when the account's access token was issued, or NoTime
    auth,       \* the latest CookieJWTAuthentication.authenticate call and outcome
    clock,      \* time.time() of the throttle, in seconds
    cache,      \* the throttle's cache: key -> request history
    throttle,   \* the latest LoginThrottle.allow_request call and outcome
    arrivals,   \* per client IP: start of its current window and requests in it
    handled,    \* the latest custom_exception_handler call and response
    phone,      \* the string handed to normalize_phone
    normalized, \* the results of normalize_phone applied again and again to phone
    records,    \* the rows of a clinic-scoped entity
    listing,    \* the latest request served by a ClinicScopedMixin view
    copy,       \* per login request: its in-memory User instance and its position
    completed,  \* the increment_failed_attempts calls that have returned
    everLocked  \* whether a lock was ever stored on the account row

idVars == <<today, tables, req>>
lockVars == <<user, streak, fifthAt>>
resetVars == <<issuedAt, issuedCode, uses, verdict>>
authVars == <<tokenIat, auth>>
acctVars == <<now, lockVars, resetVars, authVars>>
thrVars == <<clock, cache, throttle, arrivals>>
excVars == <<handled>>
phoneVars == <<phone, normalized>>
scopeVars == <<records, listing>>
raceVars == <<copy, completed, everLocked>>
vars == <<today, tables, req, now, user, streak, fifthAt, issuedAt, issuedCode,
          uses, verdict, tokenIat, auth, clock, cache, throttle, arrivals, handled,
          phone, normalized, records, listing, copy, completed, everLocked>>

NULL == "None"

\* None in a DateTimeField(null=True); times are counted from 0.
NoTime == -1

\* No call yet, or the result of the latest call has been consumed.
NoVerdict == [called |-> FALSE, code |-> "", ok |-> FALSE]
NoAuth == [called |-> FALSE, header |-> NULL, outcome |-> NULL]
NoThrottle == [called |-> FALSE, ip |-> 0, outcome |-> NULL, wait |-> NoTime]
NoListing == [called |-> FALSE, op |-> NULL, by |-> 0, payload |-> 0, outcome |-> NULL,
              rows |-> {}]

\* A login request that holds no User instance.
NoCopy == [pc |-> "idle", failed_login_attempts |-> 0, locked_until |-> NoTime]

(***************************************************************************)
(* Bounds of the model.                                                    *)
(***************************************************************************)
NumClinics == 2
NumDays == 2
NumRequests == 2
MaxRows == 2

MaxNow == 17
MaxAttempts == 7
MaxUses == 2

\* The field defaults of a new User row.
NewUser == [is_active |-> TRUE, failed_login_attempts |-> 0, locked_until |-> NoTime,
            reset_code |-> "", reset_code_expires |-> NoTime]

\* A response body: the keys of the envelope, DRF's 'detail' key and, for a
\* validation error in DRF's shape, the per-field errors at the top level.
\* An absent key holds NULL, <<>> or {}.
Body(error, message, details, detail, fields) ==
    [error |-> error, message |-> message, details |-> details, detail |-> detail,
     fields |-> fields]

NoBody == Body(NULL, <<>>, {}, NULL, {})

NoHandled == [called |-> FALSE, exc |-> [kind |-> NULL, fields |-> {}, wait |-> NoTime],
              returned |-> FALSE, status |-> 0, data |-> NoBody]

NumIPs == 2
MaxClock == 80
TickSeconds == 20
MaxRequests == 7
MaxWait == 60

Clinics == 1..NumClinics
IPs == 1..NumIPs
Days == 1..NumDays
Requests == 1..NumRequests
Kinds == {"patient", "visit", "invoice", "payment"}

(***************************************************************************)
(* Characters and strings.                                                 *)
(***************************************************************************)
Digits == <<"0", "1", "2", "3", "4", "5", "6", "7", "8", "9">>

IsDigit(c) == \E i \in 1..10 : Digits[i] = c

DigitVal(c) == (CHOOSE i \in 1..10 : Digits[i] = c) - 1

\* Code points of the characters that occur in identifiers: the order the
\* database compares strings by.
Ord(c) ==
    CASE c = "-" -> 45
      [] IsDigit(c) -> 48 + DigitVal(c)
      [] c = ":" -> 58
      [] c = "A" -> 65
      [] c = "I" -> 73
      [] c = "N" -> 78
      [] c = "P" -> 80
      [] c = "S" -> 83
      [] c = "T" -> 84
      [] c = "V" -> 86
      [] c = "Y" -> 89
      [] c = "d" -> 100

\* s < t in the lexicographic order of the code points.
RECURSIVE StrLess(_, _)
StrLess(s, t) ==
    IF t = <<>> THEN FALSE
    ELSE IF s = <<>> THEN TRUE
    ELSE IF Head(s) = Head(t) THEN StrLess(Tail(s), Tail(t))
    ELSE Ord(Head(s)) < Ord(Head(t))

\* str.startswith / the ORM's __startswith lookup.
StartsWith(s, p) == Len(s) >= Len(p) /\ SubSeq(s, 1, Len(p)) = p

\* str(n) for n >= 0: the decimal digits, no padding.
RECURSIVE Str(_)
Str(n) == IF n < 10 THEN <<Digits[n + 1]>> ELSE Str(n \div 10) \o <<Digits[(n % 10) + 1]>>

\* format(n, '0Wd'): zero-padded to at least w characters, never truncated.
RECURSIVE ZeroPad(_, _)
ZeroPad(s, w) == IF Len(s) >= w THEN s ELSE ZeroPad(<<"0">> \o s, w)

\* last.split('-')[-1]: what follows the last '-'.
RECURSIVE LastField(_)
LastField(s) ==
    IF s = <<>> THEN <<>>
    ELSE IF s[Len(s)] = "-" THEN <<>>
    ELSE LastField(SubSeq(s, 1, Len(s) - 1)) \o <<s[Len(s)]>>

\* int(s) accepts a non-empty string of digits (the only shape the
\* generators can hand it short of one with other characters).
IsInt(s) == s # <<>> /\ \A i \in 1..Len(s) : IsDigit(s[i])

RECURSIVE IntOf(_)
IntOf(s) == IF s = <<>> THEN 0 ELSE 10 * IntOf(SubSeq(s, 1, Len(s) - 1)) + DigitVal(s[Len(s)])


(***************************************************************************)
(* Sequential identifier generators (apps/core/id_generators.py).          *)
(***************************************************************************)

\* The calendar days the clock walks through: a year's last day, then the
\* first days of the next year.
Date(i) == IF i = 1 THEN [y |-> 2025, m |-> 12, d |-> 31]
                    ELSE [y |-> 2026, m |-> 1, d |-> i - 1]

\* date.strftime(fmt): fmt is a sequence of directives and literal characters.
RECURSIVE StrfTime(_, _)
StrfTime(date, fmt) ==
    IF fmt = <<>> THEN <<>>
    ELSE (CASE Head(fmt) = "%Y" -> ZeroPad(Str(date.y), 4)
            [] Head(fmt) = "%m" -> ZeroPad(Str(date.m), 2)
            [] Head(fmt) = "%d" -> ZeroPad(Str(date.d), 2)
            [] OTHER -> <<Head(fmt)>>)
         \o StrfTime(date, Tail(fmt))

\* Manager.filter(clinic_id=..., <ident>__startswith=prefix) followed by the
\* projection on the identifier column: the identifiers of the matching rows.
\* all_objects and the default manager of Visit, Invoice and Payment return
\* every row; rows are soft-deleted by a flag and stay in the table.
\*
\* Three readings are made so that the generators return at all.  The source
\* spells the projection value_list, which a stock QuerySet does not have
\* (AttributeError on every call): it is read as values_list.  The Payment
\* model is imported from apps.billing.migrations: the import is taken to
\* resolve to the model.  generate_invoice_number filters on invoice_id and
\* orders by invoice_number: both are taken to name the identifier column.
Matching(kind, clinic_id, prefix) ==
    {tables[kind][i].ident : i \in
        {j \in DOMAIN tables[kind] :
            /\ tables[kind][j].clinic = clinic_id
            /\ StartsWith(tables[kind][j].ident, prefix)}}

\* order_by('-field')...first(): the greatest identifier, or None.
DescFirst(S) == IF S = {} THEN NULL ELSE CHOOSE s \in S : \A t \in S : ~StrLess(s, t)

\* order_by('-field')...last(): the last row of the descending order, which
\* is the least identifier, or None.
DescLast(S) == IF S = {} THEN NULL ELSE CHOOSE s \in S : \A t \in S : ~StrLess(t, s)

\* seq = int(last.split('-')[-1]) + 1 if last else 1; int() raises ValueError
\* on a field that is not a number.
NextSeq(last) ==
    IF last = NULL THEN [ok |-> TRUE, seq |-> 1]
    ELSE IF IsInt(LastField(last)) THEN [ok |-> TRUE, seq |-> IntOf(LastField(last)) + 1]
    ELSE [ok |-> FALSE, seq |-> 0]

\* What a call returns: the identifier, or the exception raised on the way.
Outcome(next, ident) ==
    IF next.ok THEN [ok |-> TRUE, seq |-> next.seq, ident |-> ident, err |-> NULL]
    ELSE [ok |-> FALSE, seq |-> 0, ident |-> <<>>, err |-> "ValueError"]

\* The number of sequence values 4 digits hold: 0000..9999.
SeqSpace == 10000

\* f'{seq:04d}'
Format04d(seq) == ZeroPad(Str(seq), 4)

\* f'{seq}:04d': the format specification stands outside the braces and is
\* copied literally.
FormatLiteral04d(seq) == Str(seq) \o <<":", "0", "4", "d">>

generate_patient_id(clinic_id) ==
    LET day == StrfTime(Date(today), <<"%Y", "%m", "%d">>)
        prefix == <<"P", "A", "T", "-">> \o day \o <<"-">>
        last == DescFirst(Matching("patient", clinic_id, prefix))
        next == NextSeq(last)
    IN  Outcome(next, prefix \o FormatLiteral04d(next.seq))

generate_visit_id(clinic_id) ==
    LET day == StrfTime(Date(today), <<"Y", "%m", "%d">>)
        prefix == <<"V", "I", "S", "-">> \o day \o <<"-">>
        last == DescLast(Matching("visit", clinic_id, prefix))
        next == NextSeq(last)
    IN  Outcome(next, prefix \o Format04d(next.seq))

generate_invoice_number(clinic_id) ==
    LET day == StrfTime(Date(today), <<"%Y", "%m", "%d">>)
        prefix == <<"I", "N", "V", "-">> \o day \o <<"-">>
        last == DescLast(Matching("invoice", clinic_id, prefix))
        next == NextSeq(last)
    IN  Outcome(next, prefix \o Format04d(next.seq))

generate_payment_id(clinic_id) ==
    LET day == StrfTime(Date(today), <<"%Y", "%m", "%d">>)
        prefix == <<"P", "A", "Y", "-">> \o day \o <<"-">>
        last == DescFirst(Matching("payment", clinic_id, prefix))
        next == NextSeq(last)
    IN  Outcome(next, prefix \o Format04d(next.seq))

GenerateId(kind, clinic_id) ==
    CASE kind = "patient" -> generate_patient_id(clinic_id)
      [] kind = "visit" -> generate_visit_id(clinic_id)
      [] kind = "invoice" -> generate_invoice_number(clinic_id)
      [] kind = "payment" -> generate_payment_id(clinic_id)

Idle == [pc |-> "idle", kind |-> NULL, clinic |-> 0, ident |-> <<>>, seq |-> 0,
         day |-> 0, err |-> NULL]

RowCount == Len(tables["patient"]) + Len(tables["visit"])
            + Len(tables["invoice"]) + Len(tables["payment"])

\* A request calls the generator of its entity kind: the read of the current
\* maximum and the computation of the next identifier.  A call that raises
\* ends the request.
Generate(r, kind, clinic_id) ==
    /\ req[r].pc # "generated"
    /\ LET res == GenerateId(kind, clinic_id)
       IN  req' = [req EXCEPT ![r] =
                [pc |-> IF res.ok THEN "generated" ELSE "failed",
                 kind |-> kind, clinic |-> clinic_id, ident |-> res.ident,
                 seq |-> res.seq, day |-> IF res.ok THEN today ELSE 0,
                 err |-> res.err]]
    /\ UNCHANGED <<today, tables, acctVars, thrVars, excVars,
                   phoneVars, scopeVars, raceVars>>

\* The request saves its record under the identifier it obtained.  issued_on
\* and issued_seq record the day and sequence number of the issuing call.
Persist(r) ==
    /\ req[r].pc = "generated"
    /\ RowCount < MaxRows
    /\ tables' = [tables EXCEPT ![req[r].kind] = Append(@,
            [clinic |-> req[r].clinic, ident |-> req[r].ident, is_deleted |-> FALSE,
             issued_on |-> req[r].day, issued_seq |-> req[r].seq])]
    /\ req' = [req EXCEPT ![r] = Idle]
    /\ UNCHANGED <<today, acctVars, thrVars, excVars,
                   phoneVars, scopeVars, raceVars>>

\* SoftDeleteModel.soft_delete on a patient row.
soft_delete(i) ==
    /\ i \in DOMAIN tables["patient"]
    /\ ~tables["patient"][i].is_deleted
    /\ tables' = [tables EXCEPT !["patient"][i].is_deleted = TRUE]
    /\ UNCHANGED <<today, req, acctVars, thrVars, excVars,
                   phoneVars, scopeVars, raceVars>>

\* Midnight passes.
NextDay ==
    /\ today < NumDays
    /\ today' = today + 1
    /\ UNCHANGED <<tables, req, acctVars, thrVars, excVars,
                   phoneVars, scopeVars, raceVars>>

InitIds ==
    /\ today = 1
    /\ tables = [k \in Kinds |-> <<>>]
    /\ req = [r \in Requests |-> Idle]
    /\ now = 0 /\ user = NewUser /\ streak = 0 /\ fifthAt = NoTime
    /\ issuedAt = NoTime /\ issuedCode = "" /\ uses = 0 /\ verdict = NoVerdict
    /\ tokenIat = NoTime /\ auth = NoAuth
    /\ clock = 0 /\ cache = [ip \in IPs |-> <<>>] /\ throttle = NoThrottle
    /\ arrivals = [ip \in IPs |-> [first |-> NoTime, n |-> 0]]
    /\ handled = NoHandled
    /\ phone = <<>> /\ normalized = <<>>
    /\ records = <<>> /\ listing = NoListing
    /\ copy = [r \in Requests |-> NoCopy] /\ completed = 0 /\ everLocked = FALSE

NextIds ==
    \/ \E r \in Requests, kind \in Kinds, c \in Clinics : Generate(r, kind, c)
    \/ \E r \in Requests : Persist(r)
    \/ \E i \in 1..MaxRows : soft_delete(i)
    \/ NextDay

SpecIds == InitIds /\ [][NextIds]_vars


\* A day on which the payments of clinic 1 have reached PAY-...-9999.
InitCap ==
    /\ today = 1
    /\ tables = [k \in Kinds |->
            IF k = "payment"
            THEN <<[clinic |-> 1,
                    ident |-> <<"P", "A", "Y", "-">>
                              \o StrfTime(Date(1), <<"%Y", "%m", "%d">>)
                              \o <<"-">> \o Format04d(SeqSpace - 1),
                    is_deleted |-> FALSE, issued_on |-> 1,
                    issued_seq |-> SeqSpace - 1]>>
            ELSE <<>>]
    /\ req = [r \in Requests |-> Idle]
    /\ now = 0 /\ user = NewUser /\ streak = 0 /\ fifthAt = NoTime
    /\ issuedAt = NoTime /\ issuedCode = "" /\ uses = 0 /\ verdict = NoVerdict
    /\ tokenIat = NoTime /\ auth = NoAuth
    /\ clock = 0 /\ cache = [ip \in IPs |-> <<>>] /\ throttle = NoThrottle
    /\ arrivals = [ip \in IPs |-> [first |-> NoTime, n |-> 0]]
    /\ handled = NoHandled
    /\ phone = <<>> /\ normalized = <<>>
    /\ records = <<>> /\ listing = NoListing
    /\ copy = [r \in Requests |-> NoCopy] /\ completed = 0 /\ everLocked = FALSE

SpecCap == InitCap /\ [][NextIds]_vars

(***************************************************************************)
(* Account lockout and reset codes (apps/accounts/models.py, User).        *)
(* Time is counted in minutes.                                             *)
(***************************************************************************)
LockThreshold == 5
LockMinutes == 15
ResetCodeMinutes == 15

\* User.is_locked
is_locked(u, t) == IF u.locked_until # NoTime /\ u.locked_until > t THEN TRUE ELSE FALSE

\* User.lock_account(duration_minutes)
lock_account(u, t, duration_minutes) == [u EXCEPT !.locked_until = t + duration_minutes]

\* User.reset_failed_attempts
reset_failed_attempts(u) == [u EXCEPT !.failed_login_attempts = 0, !.locked_until = NoTime]

\* increment_failed_attempts locking one failure late (> for >=).
increment_failed_attempts_LateLock(u, t) ==
    LET v == [u EXCEPT !.failed_login_attempts = @ + 1]
    IN  IF v.failed_login_attempts > LockThreshold THEN lock_account(v, t, LockMinutes) ELSE v

\* User.increment_failed_attempts
increment_failed_attempts(u, t) ==
    LET v == [u EXCEPT !.failed_login_attempts = @ + 1]
    IN  IF v.failed_login_attempts >= LockThreshold THEN lock_account(v, t, LockMinutes) ELSE v

\* User.set_reset_code
set_reset_code(u, code, t) ==
    [u EXCEPT !.reset_code = code, !.reset_code_expires = t + ResetCodeMinutes]

\* User.clear_reset_code
clear_reset_code(u) == [u EXCEPT !.reset_code = "", !.reset_code_expires = NoTime]

\* User.verify_reset_code
verify_reset_code(u, code, t) ==
    IF u.reset_code = "" \/ u.reset_code_expires = NoTime THEN FALSE
    ELSE IF u.reset_code_expires < t THEN FALSE
    ELSE u.reset_code = code

\* The codes generate_reset_code can draw (two of the 900000) and what a
\* caller may submit besides them.
Codes == {"123456", "654321"}
Submitted == Codes \cup {""}

\* The clock advances by a minute; the result of the latest call is consumed.
Tick ==
    /\ now < MaxNow
    /\ now' = now + 1
    /\ verdict' = NoVerdict /\ auth' = NoAuth
    /\ UNCHANGED <<lockVars, issuedAt, issuedCode, uses, tokenIat, idVars, thrVars, excVars,
                   phoneVars, scopeVars, raceVars>>

\* A failed login: the account's increment_failed_attempts is called.
IncrementFailedAttempts ==
    /\ user.failed_login_attempts < MaxAttempts
    /\ user' = increment_failed_attempts(user, now)
    /\ streak' = streak + 1
    /\ fifthAt' = IF streak + 1 = 5 THEN now ELSE fifthAt
    /\ verdict' = NoVerdict /\ auth' = NoAuth
    /\ UNCHANGED <<now, issuedAt, issuedCode, uses, tokenIat, idVars, thrVars, excVars,
                   phoneVars, scopeVars, raceVars>>

\* A successful login: reset_failed_attempts is called.
ResetFailedAttempts ==
    /\ user' = reset_failed_attempts(user)
    /\ streak' = 0
    /\ fifthAt' = NoTime
    /\ verdict' = NoVerdict /\ auth' = NoAuth
    /\ UNCHANGED <<now, issuedAt, issuedCode, uses, tokenIat, idVars, thrVars, excVars,
                   phoneVars, scopeVars, raceVars>>

\* A password-reset request: a code is drawn and set_reset_code is called.
SetResetCode(code) ==
    /\ user' = set_reset_code(user, code, now)
    /\ issuedAt' = now
    /\ issuedCode' = code
    /\ uses' = 0
    /\ verdict' = NoVerdict /\ auth' = NoAuth
    /\ UNCHANGED <<now, streak, fifthAt, tokenIat, idVars, thrVars, excVars,
                   phoneVars, scopeVars, raceVars>>

\* clear_reset_code is called.
ClearResetCode ==
    /\ user' = clear_reset_code(user)
    /\ verdict' = NoVerdict /\ auth' = NoAuth
    /\ UNCHANGED <<now, streak, fifthAt, issuedAt, issuedCode, uses, tokenIat,
                   idVars, thrVars, excVars,
                   phoneVars, scopeVars, raceVars>>

\* verify_reset_code(code) is called; it reads the row and writes nothing.
VerifyResetCode(code) ==
    /\ uses < MaxUses
    /\ LET ok == verify_reset_code(user, code, now)
       IN  /\ verdict' = [called |-> TRUE, code |-> code, ok |-> ok]
           /\ uses' = IF ok THEN uses + 1 ELSE uses
    /\ auth' = NoAuth
    /\ UNCHANGED <<now, lockVars, issuedAt, issuedCode, tokenIat, idVars, thrVars, excVars,
                   phoneVars, scopeVars, raceVars>>

InitAccount ==
    /\ today = 1 /\ tables = [k \in Kinds |-> <<>>] /\ req = [r \in Requests |-> Idle]
    /\ now = 0 /\ user = NewUser /\ streak = 0 /\ fifthAt = NoTime
    /\ issuedAt = NoTime /\ issuedCode = "" /\ uses = 0 /\ verdict = NoVerdict
    /\ tokenIat = NoTime /\ auth = NoAuth
    /\ clock = 0 /\ cache = [ip \in IPs |-> <<>>] /\ throttle = NoThrottle
    /\ arrivals = [ip \in IPs |-> [first |-> NoTime, n |-> 0]]
    /\ handled = NoHandled
    /\ phone = <<>> /\ normalized = <<>>
    /\ records = <<>> /\ listing = NoListing
    /\ copy = [r \in Requests |-> NoCopy] /\ completed = 0 /\ everLocked = FALSE

NextLock ==
    \/ Tick
    \/ IncrementFailedAttempts
    \/ ResetFailedAttempts

SpecLock == InitAccount /\ [][NextLock]_vars

NextReset ==
    \/ Tick
    \/ \E code \in Codes : SetResetCode(code)
    \/ ClearResetCode
    \/ \E code \in Submitted : VerifyResetCode(code)

SpecReset == InitAccount /\ [][NextReset]_vars

(***************************************************************************)
(* CookieJWTAuthentication (apps/accounts/authentication.py).              *)
(***************************************************************************)

\* What the Authorization header of a request can hold: nothing; a scheme
\* other than Bearer; a Bearer token that fails validation (bad signature,
\* expired); a Bearer token that validates and names the account.
Headers == {"absent", "not_bearer", "bad_token", "valid"}

\* get_user without the lock check of the override.
get_user_NoLockCheck(u, t) == IF ~u.is_active THEN "error" ELSE "user"

\* get_user: JWTAuthentication.get_user loads the account and raises for an
\* inactive one; the override raises for an inactive or a locked one.
get_user(u, t) ==
    IF ~u.is_active THEN "error"
    ELSE IF is_locked(u, t) THEN "error"
    ELSE "user"

\* authenticate: None without a header or without a Bearer token in it; a
\* token that does not validate raises InvalidToken.
authenticate(header, u, t) ==
    IF header = "absent" THEN "none"
    ELSE IF header = "not_bearer" THEN "none"
    ELSE IF header = "bad_token" THEN "error"
    ELSE get_user(u, t)

\* A login succeeds elsewhere and hands the client an access token.
IssueToken ==
    /\ tokenIat = NoTime
    /\ tokenIat' = now
    /\ verdict' = NoVerdict /\ auth' = NoAuth
    /\ UNCHANGED <<now, lockVars, issuedAt, issuedCode, uses, idVars, thrVars, excVars,
                   phoneVars, scopeVars, raceVars>>

\* The account is deactivated or reactivated.
SetActive(flag) ==
    /\ user.is_active # flag
    /\ user' = [user EXCEPT !.is_active = flag]
    /\ verdict' = NoVerdict /\ auth' = NoAuth
    /\ UNCHANGED <<now, streak, fifthAt, issuedAt, issuedCode, uses, tokenIat,
                   idVars, thrVars, excVars,
                   phoneVars, scopeVars, raceVars>>

\* A request arrives and authenticate(request) runs.
Authenticate(header) ==
    /\ header = "valid" => tokenIat # NoTime
    /\ auth' = [called |-> TRUE, header |-> header,
                outcome |-> authenticate(header, user, now)]
    /\ verdict' = NoVerdict
    /\ UNCHANGED <<now, lockVars, issuedAt, issuedCode, uses, tokenIat, idVars,
                   thrVars, excVars,
                   phoneVars, scopeVars, raceVars>>

NextAuth ==
    \/ Tick
    \/ IncrementFailedAttempts
    \/ ResetFailedAttempts
    \/ IssueToken
    \/ \E flag \in BOOLEAN : SetActive(flag)
    \/ \E header \in Headers : Authenticate(header)

SpecAuth == InitAccount /\ [][NextAuth]_vars

(***************************************************************************)
(* LoginThrottle (apps/core/throttling.py) on SimpleRateThrottle.          *)
(* Time is counted in seconds.                                             *)
(***************************************************************************)

\* "5 attempts per minute per IP": the rate '5/minute' of the login scope.
LoginRequests == 5
LoginDuration == 60

\* LoginThrottle.get_cache_key: the body that formats the key from the scope
\* and the client's address is commented out; what runs is
\* super().get_cache_key, which SimpleRateThrottle leaves to its subclasses:
\* it raises NotImplementedError.
get_cache_key(ip) == [raised |-> TRUE, key |-> 0]

\* The history without the entries that have left the window:
\* while history and history[-1] <= now - duration: history.pop()
RECURSIVE Unexpired(_, _)
Unexpired(history, t) ==
    IF history # <<>> /\ history[Len(history)] <= t - LoginDuration
    THEN Unexpired(SubSeq(history, 1, Len(history) - 1), t)
    ELSE history

\* SimpleRateThrottle.allow_request with LoginThrottle's get_cache_key: the
\* outcome of the call and the cache it leaves.
allow_request(ip, store, t) ==
    LET k == get_cache_key(ip)
    IN  IF k.raised
        THEN [outcome |-> "NotImplementedError", wait |-> NoTime, store |-> store]
        ELSE LET history == Unexpired(store[k.key], t)
             IN  IF Len(history) >= LoginRequests
                 THEN [outcome |-> "throttled",
                       wait |-> LoginDuration - (t - history[Len(history)]),
                       store |-> store]
                 ELSE [outcome |-> "allowed", wait |-> NoTime,
                       store |-> [store EXCEPT ![k.key] = <<t>> \o history]]

\* The throttle's clock advances.
ClockTick ==
    /\ clock + TickSeconds <= MaxClock
    /\ clock' = clock + TickSeconds
    /\ UNCHANGED <<cache, throttle, arrivals, idVars, acctVars, excVars,
                   phoneVars, scopeVars, raceVars>>

\* A login request of a client: the view runs the throttle's allow_request.
\* arrivals counts the client's requests of the 60-second window that its
\* first request opened.
AllowRequest(ip) ==
    /\ arrivals[ip].n < MaxRequests
    /\ LET res == allow_request(ip, cache, clock)
       IN  /\ cache' = res.store
           /\ throttle' = [called |-> TRUE, ip |-> ip, outcome |-> res.outcome,
                           wait |-> res.wait]
    /\ arrivals' = [arrivals EXCEPT ![ip] =
            IF @.first = NoTime \/ clock >= @.first + 60
            THEN [first |-> clock, n |-> 1]
            ELSE [first |-> @.first, n |-> @.n + 1]]
    /\ UNCHANGED <<clock, idVars, acctVars, excVars,
                   phoneVars, scopeVars, raceVars>>

InitThrottle ==
    /\ today = 1 /\ tables = [k \in Kinds |-> <<>>] /\ req = [r \in Requests |-> Idle]
    /\ now = 0 /\ user = NewUser /\ streak = 0 /\ fifthAt = NoTime
    /\ issuedAt = NoTime /\ issuedCode = "" /\ uses = 0 /\ verdict = NoVerdict
    /\ tokenIat = NoTime /\ auth = NoAuth
    /\ clock = 0 /\ cache = [ip \in IPs |-> <<>>] /\ throttle = NoThrottle
    /\ arrivals = [ip \in IPs |-> [first |-> NoTime, n |-> 0]]
    /\ handled = NoHandled
    /\ phone = <<>> /\ normalized = <<>>
    /\ records = <<>> /\ listing = NoListing
    /\ copy = [r \in Requests |-> NoCopy] /\ completed = 0 /\ everLocked = FALSE

NextThrottle ==
    \/ ClockTick
    \/ \E ip \in IPs : AllowRequest(ip)

SpecThrottle == InitThrottle /\ [][NextThrottle]_vars

(***************************************************************************)
(* custom_exception_handler (apps/core/exceptions.py).                     *)
(***************************************************************************)

\* Per-field errors: a non-empty set of <<field, error>> pairs, one per field.
FieldErrors ==
    {fe \in SUBSET ({"phone", "password", "code", "first_name"} \X {"required", "invalid"}) :
        /\ fe # {}
        /\ \A a \in fe, b \in fe : a[1] = b[1] => a = b}

\* The exceptions a view can raise.
Exceptions ==
    {[kind |-> "ValidationError", fields |-> fe, wait |-> NoTime] : fe \in FieldErrors}
    \cup {[kind |-> "Throttled", fields |-> {}, wait |-> w] : w \in {NoTime} \cup 1..MaxWait}
    \cup {[kind |-> k, fields |-> {}, wait |-> NoTime] :
            k \in {"EnvelopeValidationError", "ParseError", "NotAuthenticated",
                   "PermissionDenied", "NotFound", "MethodNotAllowed", "Exception"}}

status_code(exc) ==
    CASE exc.kind \in {"ValidationError", "EnvelopeValidationError", "ParseError"} -> 400
      [] exc.kind = "NotAuthenticated" -> 401
      [] exc.kind = "PermissionDenied" -> 403
      [] exc.kind = "NotFound" -> 404
      [] exc.kind = "MethodNotAllowed" -> 405
      [] exc.kind = "Throttled" -> 429
      [] OTHER -> 500

\* rest_framework.views.exception_handler: None for an exception that is no
\* APIException; else a Response with the exception's status, whose data is
\* exc.detail when that is a dict and {'detail': exc.detail} otherwise.
exception_handler(exc) ==
    IF exc.kind = "Exception"
    THEN [returned |-> FALSE, status |-> 0, data |-> NoBody]
    ELSE [returned |-> TRUE, status |-> status_code(exc),
          data |-> CASE exc.kind = "ValidationError" ->
                            Body(NULL, <<>>, {}, NULL, exc.fields)
                     [] exc.kind = "EnvelopeValidationError" ->
                            Body("invalid_code", <<"Code invalide">>, {}, NULL, {})
                     [] OTHER -> Body(NULL, <<>>, {}, exc.kind, {})]

\* isinstance(response, ValidationError): response is the Response that
\* exception_handler built, never an exception.
IsValidationError(response) == FALSE

\* f' Reessayer dans {int(wait)} secondes' appended when wait is set.
ThrottledMessage(wait) ==
    IF wait # NoTime /\ wait # 0
    THEN <<"Trop de requetes.", " Reessayer dans ">> \o Str(wait) \o <<" secondes">>
    ELSE <<"Trop de requetes.">>

custom_exception_handler(exc) ==
    LET response == exception_handler(exc)
    IN  IF ~response.returned THEN response
        ELSE IF IsValidationError(response)
        THEN IF response.data.error # NULL THEN response
             ELSE [response EXCEPT !.data =
                        Body("validation_error", <<"Erreur de validation">>,
                             response.data.fields, NULL, {})]
        \* 403: the envelope is bound to the local name response_data and
        \* response.data keeps what exception_handler put there.
        ELSE IF response.status = 403 THEN response
        ELSE IF response.status = 404
        THEN [response EXCEPT !.data =
                    Body("not_found", <<"Ressource introuvable">>, {}, NULL, {})]
        ELSE IF response.status = 429
        THEN [response EXCEPT !.data =
                    Body("throttled", ThrottledMessage(exc.wait), {}, NULL, {})]
        ELSE IF response.status = 405
        THEN [response EXCEPT !.data =
                    Body("method_not_allowed", <<"Methode non autorisee">>, {}, NULL, {})]
        ELSE response

\* A view raises exc and the framework calls the handler.
Handle(exc) ==
    /\ LET response == custom_exception_handler(exc)
       IN  handled' = [called |-> TRUE, exc |-> exc, returned |-> response.returned,
                       status |-> response.status, data |-> response.data]
    /\ UNCHANGED <<idVars, acctVars, thrVars,
                   phoneVars, scopeVars, raceVars>>

InitHandler ==
    /\ today = 1 /\ tables = [k \in Kinds |-> <<>>] /\ req = [r \in Requests |-> Idle]
    /\ now = 0 /\ user = NewUser /\ streak = 0 /\ fifthAt = NoTime
    /\ issuedAt = NoTime /\ issuedCode = "" /\ uses = 0 /\ verdict = NoVerdict
    /\ tokenIat = NoTime /\ auth = NoAuth
    /\ clock = 0 /\ cache = [ip \in IPs |-> <<>>] /\ throttle = NoThrottle
    /\ arrivals = [ip \in IPs |-> [first |-> NoTime, n |-> 0]]
    /\ handled = NoHandled
    /\ phone = <<>> /\ normalized = <<>>
    /\ records = <<>> /\ listing = NoListing
    /\ copy = [r \in Requests |-> NoCopy] /\ completed = 0 /\ everLocked = FALSE

NextHandler == \E exc \in Exceptions : Handle(exc)

SpecHandler == InitHandler /\ [][NextHandler]_vars

(***************************************************************************)
(* normalize_phone (apps/core/utils.py).                                   *)
(***************************************************************************)

\* The fragments a caller's input is put together from: a plus sign, two
\* separators, the country code, a local number of nine digits, and the
\* leading digit of a local number and the eight digits that follow it.
PhonePieces ==
    {<<"+">>, <<" ">>, <<"-">>, <<"2", "3", "7">>,
     <<"6", "7", "7", "0", "0", "0", "1", "1", "1">>,
     <<"6">>, <<"9", "9", "1", "2", "3", "4", "5", "6">>}

MaxPieces == 4
MaxCalls == 2

\* The strings of at most n fragments, the empty string included.
RECURSIVE PhoneInputs(_)
PhoneInputs(n) ==
    IF n = 0 THEN {<<>>}
    ELSE LET shorter == PhoneInputs(n - 1)
         IN  shorter \cup {s \o p : s \in shorter, p \in PhonePieces}

\* The characters re.sub(r'[^\d+]', '', phone) keeps: digits and '+'.
IsKept(c) == IsDigit(c) \/ c = "+"

\* normalize_phone whose local-number branch returns f'237{cleaned}'.
normalize_phone_LocalWithoutPlus(p) ==
    IF p = <<>> THEN <<>>
    ELSE LET sub == SelectSeq(p, IsKept)
             cleaned == IF StartsWith(sub, <<"+">>) THEN SubSeq(sub, 2, Len(sub)) ELSE sub
         IN  IF StartsWith(cleaned, <<"2", "3", "7">>) /\ Len(cleaned) = 12
             THEN <<"+">> \o cleaned
             ELSE IF Len(cleaned) = 9 /\ StartsWith(cleaned, <<"6">>)
             THEN <<"2", "3", "7">> \o cleaned
             ELSE IF Len(cleaned) = 12 /\ StartsWith(cleaned, <<"2", "3", "7">>)
             THEN <<"+">> \o cleaned
             ELSE IF ~StartsWith(p, <<"+">>) THEN <<"+">> \o cleaned ELSE p

\* normalize_phone(phone)
normalize_phone(p) ==
    IF p = <<>> THEN <<>>
    ELSE LET sub == SelectSeq(p, IsKept)
             cleaned == IF StartsWith(sub, <<"+">>) THEN SubSeq(sub, 2, Len(sub)) ELSE sub
         IN  IF StartsWith(cleaned, <<"2", "3", "7">>) /\ Len(cleaned) = 12
             THEN <<"+">> \o cleaned
             ELSE IF Len(cleaned) = 9 /\ StartsWith(cleaned, <<"6">>)
             THEN <<"+", "2", "3", "7">> \o cleaned
             ELSE IF Len(cleaned) = 12 /\ StartsWith(cleaned, <<"2", "3", "7">>)
             THEN <<"+">> \o cleaned
             ELSE IF ~StartsWith(p, <<"+">>) THEN <<"+">> \o cleaned ELSE p

\* normalize_phone is called on the input, then on what the call before
\* returned.
NormalizePhone ==
    /\ Len(normalized) < MaxCalls
    /\ normalized' = Append(normalized,
            normalize_phone(IF normalized = <<>> THEN phone
                            ELSE normalized[Len(normalized)]))
    /\ UNCHANGED <<phone, idVars, acctVars, thrVars, excVars, scopeVars, raceVars>>

InitPhone ==
    /\ today = 1 /\ tables = [k \in Kinds |-> <<>>] /\ req = [r \in Requests |-> Idle]
    /\ now = 0 /\ user = NewUser /\ streak = 0 /\ fifthAt = NoTime
    /\ issuedAt = NoTime /\ issuedCode = "" /\ uses = 0 /\ verdict = NoVerdict
    /\ tokenIat = NoTime /\ auth = NoAuth
    /\ clock = 0 /\ cache = [ip \in IPs |-> <<>>] /\ throttle = NoThrottle
    /\ arrivals = [ip \in IPs |-> [first |-> NoTime, n |-> 0]]
    /\ handled = NoHandled
    /\ phone \in PhoneInputs(MaxPieces) /\ normalized = <<>>
    /\ records = <<>> /\ listing = NoListing
    /\ copy = [r \in Requests |-> NoCopy] /\ completed = 0 /\ everLocked = FALSE

NextPhone == NormalizePhone

SpecPhone == InitPhone /\ [][NextPhone]_vars

(***************************************************************************)
(* ClinicScopedMixin (apps/core/mixins.py).                                *)
(***************************************************************************)
NumAccounts == 3
MaxRecords == 2

\* request.user: one of the accounts, or the AnonymousUser of a request
\* that carries no credentials.
Accounts == 1..NumAccounts
AnonymousUser == 0

\* request.user.is_authenticated
is_authenticated(u) == u # AnonymousUser

\* request.user.clinic: every account belongs to one clinic (the foreign key
\* is not nullable); the accounts are dealt out over the clinics in turn.
user_clinic(u) == ((u - 1) % NumClinics) + 1

\* The clinic a request payload can name: one of the clinics, or none (0).
Payloads == {0} \cup Clinics

\* get_queryset that returns the view's whole queryset to an authenticated
\* user.
get_queryset_Unfiltered(u, rows) ==
    IF ~is_authenticated(u) THEN {}
    ELSE DOMAIN rows

\* ClinicScopedMixin.get_queryset: the rows (by position) of the view's
\* queryset that the request gets.
get_queryset(u, rows) ==
    IF ~is_authenticated(u) THEN {}
    ELSE {i \in DOMAIN rows : rows[i].clinic = user_clinic(u)}

\* ClinicScopedMixin.perform_create: serializer.save(clinic=...) builds the
\* row from the validated payload overlaid with the keyword arguments, so
\* the clinic is the keyword's.  AnonymousUser has no attribute clinic: the
\* argument raises AttributeError before save is called.
perform_create(u, payload) ==
    IF ~is_authenticated(u)
    THEN [raised |-> TRUE, row |-> [clinic |-> 0, created_by |-> u, named |-> payload]]
    ELSE [raised |-> FALSE,
          row |-> [clinic |-> user_clinic(u), created_by |-> u, named |-> payload]]

\* A create request of user u whose payload names a clinic (or none).
Create(u, payload) ==
    /\ Len(records) < MaxRecords
    /\ LET res == perform_create(u, payload)
       IN  /\ records' = IF res.raised THEN records ELSE Append(records, res.row)
           /\ listing' = [called |-> TRUE, op |-> "create", by |-> u, payload |-> payload,
                          outcome |-> IF res.raised THEN "AttributeError" ELSE "created",
                          rows |-> {}]
    /\ UNCHANGED <<idVars, acctVars, thrVars, excVars, phoneVars, raceVars>>

\* A list request of user u: the view serves get_queryset().
List(u) ==
    /\ listing' = [called |-> TRUE, op |-> "list", by |-> u, payload |-> 0,
                   outcome |-> "listed", rows |-> get_queryset(u, records)]
    /\ UNCHANGED <<records, idVars, acctVars, thrVars, excVars, phoneVars, raceVars>>

InitScope ==
    /\ today = 1 /\ tables = [k \in Kinds |-> <<>>] /\ req = [r \in Requests |-> Idle]
    /\ now = 0 /\ user = NewUser /\ streak = 0 /\ fifthAt = NoTime
    /\ issuedAt = NoTime /\ issuedCode = "" /\ uses = 0 /\ verdict = NoVerdict
    /\ tokenIat = NoTime /\ auth = NoAuth
    /\ clock = 0 /\ cache = [ip \in IPs |-> <<>>] /\ throttle = NoThrottle
    /\ arrivals = [ip \in IPs |-> [first |-> NoTime, n |-> 0]]
    /\ handled = NoHandled
    /\ phone = <<>> /\ normalized = <<>>
    /\ records = <<>> /\ listing = NoListing
    /\ copy = [r \in Requests |-> NoCopy] /\ completed = 0 /\ everLocked = FALSE

NextScope ==
    \/ \E u \in Accounts \cup {AnonymousUser}, payload \in Payloads : Create(u, payload)
    \/ \E u \in Accounts \cup {AnonymousUser} : List(u)

SpecScope == InitScope /\ [][NextScope]_vars

(***************************************************************************)
(* Concurrent failed logins: every request works on its own User instance  *)
(* (apps/accounts/models.py, increment_failed_attempts and lock_account).  *)
(* The variable user is the stored row.                                    *)
(***************************************************************************)

\* The requests that hold a User instance.
InFlight == {r \in Requests : copy[r].pc # "idle"}

\* A failed login begins: the request loads the account row into an
\* instance of its own.
Load(r) ==
    /\ copy[r].pc = "idle"
    /\ completed + Cardinality(InFlight) < MaxAttempts
    /\ copy' = [copy EXCEPT ![r] =
            [pc |-> "loaded", failed_login_attempts |-> user.failed_login_attempts,
             locked_until |-> user.locked_until]]
    /\ UNCHANGED <<user, completed, everLocked, now, streak, fifthAt, resetVars,
                   authVars, idVars, thrVars, excVars, phoneVars, scopeVars>>

\* increment_failed_attempts up to its own save: the instance's counter is
\* incremented and, from 5 on, lock_account sets the instance's locked_until
\* and stores that one field.
Increment(r) ==
    /\ copy[r].pc = "loaded"
    /\ LET v == increment_failed_attempts(copy[r], now)
       IN  /\ copy' = [copy EXCEPT ![r] = [v EXCEPT !.pc = "incremented"]]
           /\ user' = IF v.failed_login_attempts >= LockThreshold
                      THEN [user EXCEPT !.locked_until = v.locked_until]
                      ELSE user
           /\ everLocked' = (everLocked \/ v.failed_login_attempts >= LockThreshold)
    /\ UNCHANGED <<completed, now, streak, fifthAt, resetVars, authVars, idVars,
                   thrVars, excVars, phoneVars, scopeVars>>

\* self.save(update_fields=['failed_login_attempts', 'locked_until']): both
\* fields of the row are overwritten with the instance's, and the call
\* returns.
Save(r) ==
    /\ copy[r].pc = "incremented"
    /\ user' = [user EXCEPT !.failed_login_attempts = copy[r].failed_login_attempts,
                            !.locked_until = copy[r].locked_until]
    /\ copy' = [copy EXCEPT ![r] = NoCopy]
    /\ completed' = completed + 1
    /\ everLocked' = (everLocked \/ copy[r].locked_until # NoTime)
    /\ UNCHANGED <<now, streak, fifthAt, resetVars, authVars, idVars, thrVars,
                   excVars, phoneVars, scopeVars>>

NextRace ==
    \/ Tick
    \/ \E r \in Requests : Load(r)
    \/ \E r \in Requests : Increment(r)
    \/ \E r \in Requests : Save(r)

SpecRace == InitAccount /\ [][NextRace]_vars

(***************************************************************************)
(* Claims about the identifier generators.                                 *)
(***************************************************************************)
Pending(r) == req[r].pc = "generated"

\* The identifiers of the rows of a clinic in the table of a kind.
Stored(kind, clinic_id) ==
    {tables[kind][i].ident : i \in {j \in DOMAIN tables[kind] :
                                        tables[kind][j].clinic = clinic_id}}

MaxSeqToday(kind, clinic_id) ==
    LET S == {tables[kind][i].issued_seq : i \in {j \in DOMAIN tables[kind] :
                    /\ tables[kind][j].clinic = clinic_id
                    /\ tables[kind][j].issued_on = today}}
    IN  IF S = {} THEN 0 ELSE CHOOSE n \in S : \A m \in S : m <= n

Prefix(kind) ==
    CASE kind = "patient" -> <<"P", "A", "T">>
      [] kind = "visit" -> <<"V", "I", "S">>
      [] kind = "invoice" -> <<"I", "N", "V">>
      [] kind = "payment" -> <<"P", "A", "Y">>

\* s is PREFIX-YYYYMMDD-NNNN for the kind, the date and the sequence number.
WellFormed(s, kind, date, seq) ==
    /\ Len(s) = 17
    /\ SubSeq(s, 1, 3) = Prefix(kind)
    /\ s[4] = "-"
    /\ \A i \in 5..12 : IsDigit(s[i])
    /\ IntOf(SubSeq(s, 5, 8)) = date.y
    /\ IntOf(SubSeq(s, 9, 10)) = date.m
    /\ IntOf(SubSeq(s, 11, 12)) = date.d
    /\ s[13] = "-"
    /\ \A i \in 14..17 : IsDigit(s[i])
    /\ IntOf(SubSeq(s, 14, 17)) = seq

C5_LockedAfterFiveFailures ==
    /\ streak < 5 => ~is_locked(user, now)
    /\ streak = 5 => user.locked_until = fifthAt + 15
    /\ (streak >= 5 /\ now < fifthAt + 15) => is_locked(user, now)
    /\ (streak = 5 /\ now >= fifthAt + 15) => ~is_locked(user, now)
    /\ streak = 0 => (user.failed_login_attempts = 0 /\ user.locked_until = NoTime)

\* C5 witness: the account is still read as locked in the last minute of the
\* window opened by the 5th failure.
C5_Witness == streak = 5 /\ now = fifthAt + 14 /\ is_locked(user, now)

\* C6: a failed attempt recorded while the account is locked leaves
\* locked_until as it was.
C6_LockWindowUnchanged ==
    [][(IncrementFailedAttempts /\ is_locked(user, now))
            => user'.locked_until = user.locked_until]_vars

\* C7: verify_reset_code returns true only for the latest issued code, within
\* 15 minutes of its issuance, and at most once per issued code.
C7_VerifyOnlyOnce ==
    (verdict.called /\ verdict.ok) =>
        /\ verdict.code = issuedCode
        /\ issuedAt # NoTime
        /\ now <= issuedAt + 15
        /\ uses <= 1

\* C8: authenticate returns the account only for a valid bearer token of an
\* account that is active and not locked at the time of the request; for a
\* valid token of an inactive or locked account it raises; for such a token
\* of an active, unlocked account it returns the account; without an
\* Authorization header it returns None.
C8_AuthenticateChecksAccount ==
    auth.called =>
        LET locked == user.locked_until # NoTime /\ user.locked_until > now
        IN  /\ auth.outcome = "user" =>
                    (auth.header = "valid" /\ user.is_active /\ ~locked)
            /\ (auth.header = "valid" /\ (~user.is_active \/ locked)) =>
                    auth.outcome = "error"
            /\ (auth.header = "valid" /\ user.is_active /\ ~locked) =>
                    auth.outcome = "user"
            /\ auth.header = "absent" => auth.outcome = "none"

\* C8 witness: a token issued before the account was locked is refused while
\* the lock lasts.
C8_Witness ==
    /\ auth.called /\ auth.header = "valid" /\ auth.outcome = "error"
    /\ user.is_active
    /\ streak >= 5 /\ tokenIat < fifthAt /\ user.locked_until > now

(***************************************************************************)
(* Claims about the throttle and the error responder.                      *)
(***************************************************************************)

\* C9: of the login requests of one IP inside one 60-second window the
\* first 5 are allowed and the 6th is rejected as throttled with a
\* retry-after duration; the first request after the window is allowed.
C9_SixthLoginThrottled ==
    throttle.called =>
        /\ arrivals[throttle.ip].n <= 5 => throttle.outcome = "allowed"
        /\ arrivals[throttle.ip].n = 6 =>
                (throttle.outcome = "throttled" /\ throttle.wait # NoTime)

\* C10: the body the handler returns has the error code of its status: 400
\* validation_error with the per-field errors under details, 403 forbidden,
\* 404 not_found with the message Ressource introuvable, 405
\* method_not_allowed, 429 throttled with the seconds to wait in the message
\* when they are known.
C10_ErrorCodeByStatus ==
    (handled.called /\ handled.returned) =>
        /\ handled.exc.kind = "ValidationError" =>
                /\ handled.data.error = "validation_error"
                /\ handled.data.details = handled.exc.fields
        /\ handled.status = 403 => handled.data.error = "forbidden"
        /\ handled.status = 404 =>
                /\ handled.data.error = "not_found"
                /\ handled.data.message = <<"Ressource introuvable">>
        /\ handled.status = 405 => handled.data.error = "method_not_allowed"
        /\ handled.status = 429 =>
                /\ handled.data.error = "throttled"
                /\ handled.exc.wait # NoTime =>
                        \E i \in 1..Len(handled.data.message) :
                            SubSeq(handled.data.message, i,
                                   i + Len(Str(handled.exc.wait)) - 1)
                                = Str(handled.exc.wait)

(***************************************************************************)
(* Claims about normalize_phone.                                           *)
(***************************************************************************)

\* C11: normalize_phone is total and idempotent: on every input string, the
\* empty one included, a call returns (so a further call can be made), and a
\* call on a returned value returns that value again, also for the inputs
\* that take the fallback branch.
C11_NormalizeIdempotent ==
    /\ Len(normalized) < MaxCalls => ENABLED NormalizePhone
    /\ \A i \in 2..Len(normalized) : normalized[i] = normalized[1]
    /\ phone = <<>> => \A i \in 1..Len(normalized) : normalized[i] = <<>>

\* C11 witness: an input with separators and no leading '+' that took the
\* fallback branch (no canonical +237 number came out) was normalized twice.
C11_Witness ==
    /\ Len(normalized) >= 2
    /\ phone # <<>> /\ ~StartsWith(phone, <<"+">>)
    /\ \E i \in 1..Len(phone) : phone[i] \in {" ", "-"}
    /\ Len(normalized[1]) > 1 /\ Len(normalized[1]) # 13
    /\ normalized[1] # <<"+">> \o phone

(***************************************************************************)
(* Claims about ClinicScopedMixin.                                         *)
(***************************************************************************)

\* C12: every record created through the view carries the clinic of the
\* account that created it, whatever clinic the payload named; every record
\* a list request of an authenticated account gets has that account's
\* clinic; an unauthenticated list request gets no record (and an
\* unauthenticated create request stores none).
C12_ClinicScoped ==
    /\ \A i \in DOMAIN records :
            /\ is_authenticated(records[i].created_by)
            /\ records[i].clinic = user_clinic(records[i].created_by)
    /\ (listing.called /\ listing.op = "list") =>
            /\ is_authenticated(listing.by) =>
                    \A i \in listing.rows : records[i].clinic = user_clinic(listing.by)
            /\ ~is_authenticated(listing.by) => listing.rows = {}

\* C12 witness: an account lists while the table holds a record of another
\* clinic, and a record of its own clinic whose payload named the other
\* clinic: it gets the second and not the first.
C12_Witness ==
    /\ listing.called /\ listing.op = "list" /\ is_authenticated(listing.by)
    /\ \E i \in DOMAIN records, j \in DOMAIN records :
            /\ records[i].clinic # user_clinic(listing.by)
            /\ i \notin listing.rows
            /\ records[j].named = records[i].clinic
            /\ records[j].clinic = user_clinic(listing.by)
            /\ j \in listing.rows

(***************************************************************************)
(* Claims about concurrent failed logins.                                  *)
(***************************************************************************)

\* C13: with failed logins running concurrently, each on its own instance,
\* the lockout is at most one attempt off the 5th: once 6 calls of
\* increment_failed_attempts have returned a lock has been stored on the
\* row, and none is stored before 4 have returned.
C13_LockWithinOneAttempt ==
    /\ completed >= 6 => everLocked
    /\ everLocked => completed >= 4

\* C14: a save of increment_failed_attempts (lock_account's or its own)
\* never unlocks the account: if the stored row is locked before the save,
\* it is locked after it and its failed_login_attempts has not decreased.
C14_SaveNeverUnlocks ==
    [][\A r \in Requests :
            ((Increment(r) \/ Save(r)) /\ is_locked(user, now)) =>
                /\ is_locked(user', now)
                /\ user'.failed_login_attempts >= user.failed_login_attempts]_vars

====
